---- MODULE Spec2Model ----
(***************************************************************************)
(* A model of the arithmetic expression compiler of src/main.cpp: the      *)
(* Lexer (text -> tokens), the recursive-descent Parser (tokens -> AST),   *)
(* the AST evaluator, ArithmeticCompiler and the interactive loop of main. *)
(*                                                                         *)
(* Characters are one-character strings; NUL names the zero byte '\0'.     *)
(* The alphabet is 7-bit: for those characters std::isspace and            *)
(* std::isdigit are defined for every build.                               *)
(*                                                                         *)
(* A double is modelled by the exact rational <<n, d>> (d > 0, lowest      *)
(* terms).  Within the bounds below (literals of at most MaxLen digits,    *)
(* at most MaxOps operators) no overflow or underflow of a double occurs.  *)
(***************************************************************************)
EXTENDS Integers, Sequences, FiniteSets, TLC

VARIABLES lexer, parser, compiler, shell

vars == <<lexer, parser, compiler, shell>>

---------------------------------------------------------------------------
(* Bounds of the model *)

\* longest input string enumerated exhaustively
MaxLen == 3

\* most operator nodes of a generated expression tree
MaxOps == 2

---------------------------------------------------------------------------
(* Characters *)

NUL == "NUL"

Digits == {"0", "1", "2"}

Operators == {"+", "-", "*", "/", "(", ")"}

Whitespace == {" ", "\t"}

\* a variant of isspace that knows the blank only
isspace_blank_only(c) == c = " "

\* std::isspace in the "C" locale
isspace(c) == c \in {" ", "\t", "\n", "\r"}

\* std::isdigit
isdigit(c) == c \in {"0", "1", "2", "3", "4", "5", "6", "7", "8", "9"}

DigitValue(c) ==
    CASE c = "0" -> 0 [] c = "1" -> 1 [] c = "2" -> 2 [] c = "3" -> 3
      [] c = "4" -> 4 [] c = "5" -> 5 [] c = "6" -> 6 [] c = "7" -> 7
      [] c = "8" -> 8 [] c = "9" -> 9

\* all strings over alphabet A of length at most n
Strings(A, n) == UNION {[1..k -> A] : k \in 0..n}

---------------------------------------------------------------------------
(* double, as an exact rational *)

Abs(x) == IF x < 0 THEN -x ELSE x

RECURSIVE Gcd(_, _)
Gcd(a, b) == IF b = 0 THEN a ELSE Gcd(b, a % b)

Sign(x) == IF x < 0 THEN -1 ELSE 1

Reduce(n, d, g) == <<n \div g, d \div g>>

\* n / d, for d # 0
Rat(n, d) == Reduce(Sign(d) * n, Sign(d) * d, Gcd(Abs(n), Abs(d)))

Zero == <<0, 1>>

RatAdd(a, b) == Rat(a[1] * b[2] + b[1] * a[2], a[2] * b[2])
RatSub(a, b) == Rat(a[1] * b[2] - b[1] * a[2], a[2] * b[2])
RatMul(a, b) == Rat(a[1] * b[1], a[2] * b[2])
RatDiv(a, b) == Rat(a[1] * b[2], a[2] * b[1])
RatNeg(a) == <<-a[1], a[2]>>

RECURSIVE Pow10(_)
Pow10(k) == IF k = 0 THEN 1 ELSE 10 * Pow10(k - 1)

RECURSIVE DecimalValue(_)
DecimalValue(s) ==
    IF s = <<>> THEN 0
    ELSE 10 * DecimalValue(SubSeq(s, 1, Len(s) - 1)) + DigitValue(s[Len(s)])

\* length of the longest prefix of s made of digits
RECURSIVE DigitRun(_)
DigitRun(s) ==
    IF s # <<>> /\ isdigit(Head(s)) THEN 1 + DigitRun(Tail(s)) ELSE 0

NoExc == [what |-> <<>>]

\* std::stod on a string of digits and '.': converts the longest prefix of the
\* form digits [. digits] holding a digit, and throws std::invalid_argument
\* (what() = "stod") when there is none.
\* i digits of s, then f digits after a '.'
stod_digits(s, i, f) ==
    IF i + f = 0
    THEN [ok |-> FALSE, val |-> Zero, exc |-> [what |-> <<"stod">>]]
    ELSE [ok |-> TRUE,
          val |-> Rat(DecimalValue(SubSeq(s, 1, i)) * Pow10(f)
                        + DecimalValue(SubSeq(s, i + 2, i + 1 + f)), Pow10(f)),
          exc |-> NoExc]

stod_fraction(s, i) ==
    stod_digits(s, i, IF i < Len(s) /\ s[i + 1] = "."
                      THEN DigitRun(SubSeq(s, i + 2, Len(s))) ELSE 0)

stod(s) == stod_fraction(s, DigitRun(s))

---------------------------------------------------------------------------
(* Token *)

TokenType == {"NUMBER", "PLUS", "MINUS", "MULTIPLY", "DIVIDE", "LPAREN", "RPAREN",
              "END_OF_FILE"}

Token(t, v) == [type |-> t, value |-> v]

Tok(t) == Token(t, Zero)

---------------------------------------------------------------------------
(* Lexer.  The record holds the object's fields (input, position,          *)
(* current_char) and the activation of get_next_token in progress: pc is   *)
(* "idle" between calls, the name of the running method during one, and    *)
(* "thrown" once a call has left by an exception (exc); ret is the token   *)
(* the last call returned (of type "none" before the first return).        *)

Lexer(text) ==
    [input |-> text, position |-> 0,
     current_char |-> IF text = <<>> THEN NUL ELSE text[1],
     pc |-> "idle", num_str |-> <<>>, ret |-> Tok("none"), exc |-> NoExc]

\* a variant of advance that caches the character before the new position
advance_stale(l) ==
    [l EXCEPT !.position = l.position + 1,
              !.current_char = IF l.position + 1 >= Len(l.input) THEN NUL
                               ELSE l.input[l.position + 1]]

advance(l) ==
    LET p == l.position + 1
    IN  [l EXCEPT !.position = p,
                  !.current_char = IF p >= Len(l.input) THEN NUL ELSE l.input[p + 1]]

Return(l, tok) == [l EXCEPT !.pc = "idle", !.ret = tok]

Throw(l, e) == [l EXCEPT !.pc = "thrown", !.exc = e]

OperatorToken(c) ==
    CASE c = "+" -> "PLUS" [] c = "-" -> "MINUS" [] c = "*" -> "MULTIPLY"
      [] c = "/" -> "DIVIDE" [] c = "(" -> "LPAREN" [] c = ")" -> "RPAREN"

\* one test of the loop of skip_whitespace
skip_whitespace_step(l) ==
    IF l.current_char # NUL /\ isspace(l.current_char)
    THEN advance(l)
    ELSE [l EXCEPT !.pc = "get_next_token"]

\* number returns the double r of std::stod, or leaves by its exception
number_return(l, r) ==
    IF r.ok THEN Return(l, Token("NUMBER", r.val)) ELSE Throw(l, r.exc)

\* one test of the loop of number, and its return
number_step(l) ==
    IF l.current_char # NUL /\ (isdigit(l.current_char) \/ l.current_char = ".")
    THEN advance([l EXCEPT !.num_str = Append(@, l.current_char)])
    ELSE number_return(l, stod(l.num_str))

\* a variant of get_next_token that steps over the end of the input
get_next_token_step_past_end(l) ==
    IF l.current_char = NUL THEN Return(advance(l), Tok("END_OF_FILE"))
    ELSE IF isspace(l.current_char) THEN [l EXCEPT !.pc = "skip_whitespace"]
    ELSE IF isdigit(l.current_char) \/ l.current_char = "."
    THEN [l EXCEPT !.pc = "number", !.num_str = <<>>]
    ELSE IF l.current_char \in Operators
    THEN Return(advance(l), Tok(OperatorToken(l.current_char)))
    ELSE Throw(l, [what |-> <<"Invalid character: ", l.current_char>>])

\* one pass of the loop of get_next_token
get_next_token_step(l) ==
    LET c == l.current_char
    IN  IF c = NUL THEN Return(l, Tok("END_OF_FILE"))
        ELSE IF isspace(c) THEN [l EXCEPT !.pc = "skip_whitespace"]
        ELSE IF isdigit(c) \/ c = "." THEN [l EXCEPT !.pc = "number", !.num_str = <<>>]
        ELSE IF c \in Operators THEN Return(advance(l), Tok(OperatorToken(c)))
        ELSE Throw(l, [what |-> <<"Invalid character: ", c>>])

LexerStep(l) ==
    CASE l.pc = "get_next_token" -> get_next_token_step(l)
      [] l.pc = "skip_whitespace" -> skip_whitespace_step(l)
      [] l.pc = "number" -> number_step(l)

RECURSIVE RunLexer(_)
RunLexer(l) == IF l.pc \in {"idle", "thrown"} THEN l ELSE RunLexer(LexerStep(l))

\* a whole call of get_next_token
get_next_token(l) == RunLexer([l EXCEPT !.pc = "get_next_token"])

---------------------------------------------------------------------------
(* AST nodes and their evaluation *)

NoNode == [kind |-> "None"]

NumberNode(val) == [kind |-> "Number", value |-> val]

UnaryOpNode(operation, node) == [kind |-> "UnaryOp", op |-> operation, operand |-> node]

BinaryOpNode(l, operation, r) ==
    [kind |-> "BinaryOp", left |-> l, op |-> operation, right |-> r]

Value(v) == [ok |-> TRUE, val |-> v, exc |-> NoExc]

Raise(msg) == [ok |-> FALSE, val |-> Zero, exc |-> [what |-> msg]]

\* a variant of the switch that tests the dividend for zero, not the divisor
BinaryOp_left_zero(op, left_val, right_val) ==
    CASE op = "PLUS" -> Value(RatAdd(left_val, right_val))
      [] op = "MINUS" -> Value(RatSub(left_val, right_val))
      [] op = "MULTIPLY" -> Value(RatMul(left_val, right_val))
      [] op = "DIVIDE" -> IF left_val = Zero THEN Raise(<<"Division by zero">>)
                          ELSE IF right_val = Zero THEN Value(Zero)
                          ELSE Value(RatDiv(left_val, right_val))
      [] OTHER -> Raise(<<"Unknown binary operator">>)

\* the switch of BinaryOpNode::evaluate, on the two operand values
BinaryOp(op, left_val, right_val) ==
    CASE op = "PLUS" -> Value(RatAdd(left_val, right_val))
      [] op = "MINUS" -> Value(RatSub(left_val, right_val))
      [] op = "MULTIPLY" -> Value(RatMul(left_val, right_val))
      [] op = "DIVIDE" -> IF right_val = Zero
                          THEN Raise(<<"Division by zero">>)
                          ELSE Value(RatDiv(left_val, right_val))
      [] OTHER -> Raise(<<"Unknown binary operator">>)

\* the switch of UnaryOpNode::evaluate
UnaryOp(op, val) ==
    CASE op = "PLUS" -> Value(val)
      [] op = "MINUS" -> Value(RatNeg(val))
      [] OTHER -> Raise(<<"Unknown unary operator">>)

\* ASTNode::evaluate: the left operand first, then the right; an exception of
\* an operand leaves the node at once
RECURSIVE evaluate(_)
evaluate(node) ==
    CASE node.kind = "Number" -> Value(node.value)
      [] node.kind = "UnaryOp" ->
           LET v == evaluate(node.operand)
           IN  IF v.ok THEN UnaryOp(node.op, v.val) ELSE v
      [] node.kind = "BinaryOp" ->
           LET lv == evaluate(node.left)
           IN  IF ~lv.ok THEN lv
               ELSE LET rv == evaluate(node.right)
                    IN  IF ~rv.ok THEN rv ELSE BinaryOp(node.op, lv.val, rv.val)

---------------------------------------------------------------------------
(* Parser.  The record holds the object's fields (lexer, current_token)    *)
(* and the call stack of the parse in progress: one frame per active call  *)
(* of parse, expr, term or factor, with the place it waits at (pc) and     *)
(* its locals (node, and the saved token's type op).  ret is the node the  *)
(* last finished call returned.  status: "ready" after construction,       *)
(* "running", "returned" (ast is the tree) or "thrown" (exc).              *)

Frame(f, at, n, o) == [fn |-> f, pc |-> at, node |-> n, op |-> o]

Entry(f) == Frame(f, "entry", NoNode, "END_OF_FILE")

ParserThrow(p, e) == [p EXCEPT !.status = "thrown", !.exc = e, !.stack = <<>>]

\* Parser::Parser: current_token becomes the first token of the text
\* current_token = lexer.get_next_token(), l being the lexer after the call
next_token(p, l) ==
    IF l.pc = "thrown" THEN ParserThrow([p EXCEPT !.lexer = l], l.exc)
    ELSE [p EXCEPT !.lexer = l, !.current_token = l.ret]

\* Parser::Parser: current_token becomes the first token of the text
Parser(text) ==
    next_token([lexer |-> Lexer(text), current_token |-> Tok("END_OF_FILE"),
                stack |-> <<>>, ret |-> NoNode, status |-> "ready", exc |-> NoExc,
                ast |-> NoNode],
               get_next_token(Lexer(text)))

eat(p, token_type) ==
    IF p.current_token.type = token_type
    THEN next_token(p, get_next_token(p.lexer))
    ELSE ParserThrow(p, [what |-> <<"Unexpected token">>])

Top(p) == p.stack[Len(p.stack)]

\* the running call goes on at pc, with locals node and op, and calls callee
Call(p, at, n, o, callee) ==
    IF p.status = "thrown" THEN p
    ELSE [p EXCEPT !.stack = Append(SubSeq(@, 1, Len(@) - 1), Frame(Top(p).fn, at, n, o))
                              \o <<Entry(callee)>>]

\* the running call returns node n to its caller
ReturnNode(p, n) ==
    IF p.status = "thrown" THEN p
    ELSE [p EXCEPT !.stack = SubSeq(@, 1, Len(@) - 1), !.ret = n]

\* factor, from its entry to its first call, return or throw
factor_entry(p) ==
    LET token == p.current_token
    IN  IF token.type = "PLUS"
        THEN Call(eat(p, "PLUS"), "operand", NoNode, "PLUS", "factor")
        ELSE IF token.type = "MINUS"
        THEN Call(eat(p, "MINUS"), "operand", NoNode, "MINUS", "factor")
        ELSE IF token.type = "NUMBER"
        THEN ReturnNode(eat(p, "NUMBER"), NumberNode(token.value))
        ELSE IF token.type = "LPAREN"
        THEN Call(eat(p, "LPAREN"), "paren", NoNode, "LPAREN", "expr")
        ELSE ParserThrow(p, [what |-> <<"Invalid syntax">>])

\* factor, after the operand of a unary sign has been parsed
factor_operand(p) == ReturnNode(p, UnaryOpNode(Top(p).op, p.ret))

\* a variant of factor that takes a missing close parenthesis for granted
factor_paren_lenient(p) ==
    IF p.current_token.type = "RPAREN" THEN ReturnNode(eat(p, "RPAREN"), p.ret)
    ELSE ReturnNode(p, p.ret)

\* factor, after the expr inside parentheses has been parsed
factor_paren(p) == ReturnNode(eat(p, "RPAREN"), p.ret)

\* the loop of term or expr with the tree so far in node: another operator of
\* the level ops is eaten and its right operand parsed by callee, or the call
\* returns node
binary_loop(p, node, ops, callee) ==
    IF p.current_token.type \in ops
    THEN LET token == p.current_token
         IN  Call(eat(p, token.type), "rhs", node, token.type, callee)
    ELSE ReturnNode(p, node)

TermOps == {"MULTIPLY", "DIVIDE"}

ExprOps == {"PLUS", "MINUS"}

term_step(p) ==
    CASE Top(p).pc = "entry" -> Call(p, "first", NoNode, "END_OF_FILE", "factor")
      [] Top(p).pc = "first" -> binary_loop(p, p.ret, TermOps, "factor")
      [] Top(p).pc = "rhs" ->
           binary_loop(p, BinaryOpNode(Top(p).node, Top(p).op, p.ret), TermOps, "factor")

\* a variant of expr whose right operands are factors, not terms
expr_step_flat(p) ==
    CASE Top(p).pc = "entry" -> Call(p, "first", NoNode, "END_OF_FILE", "term")
      [] Top(p).pc = "first" -> binary_loop(p, p.ret, ExprOps, "factor")
      [] Top(p).pc = "rhs" ->
           binary_loop(p, BinaryOpNode(Top(p).node, Top(p).op, p.ret), ExprOps, "factor")

expr_step(p) ==
    CASE Top(p).pc = "entry" -> Call(p, "first", NoNode, "END_OF_FILE", "term")
      [] Top(p).pc = "first" -> binary_loop(p, p.ret, ExprOps, "term")
      [] Top(p).pc = "rhs" ->
           binary_loop(p, BinaryOpNode(Top(p).node, Top(p).op, p.ret), ExprOps, "term")

factor_step(p) ==
    CASE Top(p).pc = "entry" -> factor_entry(p)
      [] Top(p).pc = "operand" -> factor_operand(p)
      [] Top(p).pc = "paren" -> factor_paren(p)

\* Parser::parse is called: it calls expr
parse_call(p) ==
    [p EXCEPT !.status = "running",
              !.stack = <<Frame("parse", "expr", NoNode, "END_OF_FILE"), Entry("expr")>>]

\* a variant of parse that does not look at the token after the expr
parse_end_unchecked(p) == [p EXCEPT !.status = "returned", !.ast = p.ret, !.stack = <<>>]

\* Parser::parse, after expr has returned
parse_end(p) ==
    IF p.current_token.type # "END_OF_FILE"
    THEN ParserThrow(p, [what |-> <<"Unexpected token at end of expression">>])
    ELSE [p EXCEPT !.status = "returned", !.ast = p.ret, !.stack = <<>>]

ParserStep(p) ==
    CASE Top(p).fn = "factor" -> factor_step(p)
      [] Top(p).fn = "term" -> term_step(p)
      [] Top(p).fn = "expr" -> expr_step(p)
      [] Top(p).fn = "parse" -> parse_end(p)

RECURSIVE RunParser(_)
RunParser(p) == IF p.status # "running" THEN p ELSE RunParser(ParserStep(p))

\* a whole call of Parser::parse
parse(p) == RunParser(parse_call(p))

---------------------------------------------------------------------------
(* ArithmeticCompiler *)

\* the catch block of compile_and_evaluate
CompilationError(e) == Raise(<<"Compilation error: ">> \o e.what)

\* return ast->evaluate(), r being what evaluate gave
compile_evaluated(r) == IF r.ok THEN r ELSE CompilationError(r.exc)

\* auto ast = parser.parse(), q being the parser after the call
compile_parsed(q) ==
    IF q.status = "thrown" THEN CompilationError(q.exc)
    ELSE compile_evaluated(evaluate(q.ast))

\* Parser parser(expression), p being the parser constructed
compile_constructed(p) ==
    IF p.status = "thrown" THEN CompilationError(p.exc)
    ELSE compile_parsed(parse(p))

compile_and_evaluate(expression) == compile_constructed(Parser(expression))

\* print_tokens: the tokens written to the output, up to END_OF_FILE; an
\* exception of the lexer leaves print_tokens, which catches nothing
RECURSIVE print_tokens_loop(_, _)
print_tokens_loop(l, out) ==
    IF l.pc = "thrown" THEN [ok |-> FALSE, out |-> out, exc |-> l.exc]
    ELSE IF l.ret.type = "END_OF_FILE" THEN [ok |-> TRUE, out |-> out, exc |-> NoExc]
    ELSE print_tokens_loop(get_next_token(l), Append(out, l.ret))

print_tokens(expression) == print_tokens_loop(get_next_token(Lexer(expression)), <<>>)

---------------------------------------------------------------------------
(* main: the interactive loop.  pc is "prompt" before a line is read,      *)
(* "dispatch" once std::getline has filled expression, "exited" after the  *)
(* break, and "terminated" when an exception has left main (std::terminate)*)
(* out is what has been written since the last prompt.                     *)

quit == <<"q", "u", "i", "t">>

tokens == <<"t", "o", "k", "e", "n", "s">>

\* std::string::substr(pos, n), for pos <= size
substr(str, pos, n) ==
    SubSeq(str, pos + 1, IF pos + n > Len(str) THEN Len(str) ELSE pos + n)

\* compiler.print_tokens(expr), outside any try block: r is what it gave
main_tokens(sh, r) ==
    IF r.ok THEN [sh EXCEPT !.pc = "prompt", !.out = <<"Tokens: ">> \o r.out]
    ELSE [sh EXCEPT !.pc = "terminated", !.out = r.exc.what]

\* the try block around compile_and_evaluate and its catch: r is what it gave
main_evaluate(sh, r) ==
    IF r.ok THEN [sh EXCEPT !.pc = "prompt", !.out = <<"Result: ", r.val>>]
    ELSE [sh EXCEPT !.pc = "prompt", !.out = <<"Error: ">> \o r.exc.what]

\* the body of the loop, once the line is read
main_dispatch(sh) ==
    IF sh.expression = quit THEN [sh EXCEPT !.pc = "exited", !.out = <<"Goodbye!">>]
    ELSE IF substr(sh.expression, 0, 6) = tokens
    THEN IF Len(sh.expression) > 7
         THEN main_tokens(sh, print_tokens(substr(sh.expression, 7, Len(sh.expression))))
         ELSE [sh EXCEPT !.pc = "prompt", !.out = <<"Usage: tokens <expression>">>]
    ELSE IF sh.expression = <<>> THEN [sh EXCEPT !.pc = "prompt"]
    ELSE main_evaluate(sh, compile_and_evaluate(sh.expression))

---------------------------------------------------------------------------
(* The inputs of the model *)

Alphabet == Digits \cup {"."} \cup Operators \cup {" ", "$", NUL}

\* the literals of the generated expression trees
LeafDigits == {"0", "2"}

Leaves == {NumberNode(<<DigitValue(d), 1>>) : d \in LeafDigits}

\* the expression trees with exactly k operator nodes
RECURSIVE Trees(_)
Trees(k) ==
    IF k = 0 THEN Leaves
    ELSE {UnaryOpNode(o, t) : o \in ExprOps, t \in Trees(k - 1)}
         \cup UNION {{BinaryOpNode(a, o, b) :
                        o \in ExprOps \cup TermOps, a \in Trees(i), b \in Trees(k - 1 - i)} :
                     i \in 0..(k - 1)}

TreesUpTo(n) == UNION {Trees(k) : k \in 0..n}

OperatorChar(o) ==
    CASE o = "PLUS" -> "+" [] o = "MINUS" -> "-" [] o = "MULTIPLY" -> "*" [] o = "DIVIDE" -> "/"

Parens(str, needed) == IF needed THEN <<"(">> \o str \o <<")">> ELSE str

\* the text of a tree with the fewest parentheses, where an operand of an
\* additive operator is wanted (level 1), of a multiplicative one (2), or a
\* factor (3)
RECURSIVE Unparse(_, _)
Unparse(node, level) ==
    CASE node.kind = "Number" -> <<CHOOSE d \in LeafDigits : DigitValue(d) = node.value[1]>>
      [] node.kind = "UnaryOp" -> <<OperatorChar(node.op)>> \o Unparse(node.operand, 3)
      [] node.kind = "BinaryOp" /\ node.op \in ExprOps ->
           Parens(Unparse(node.left, 1) \o <<OperatorChar(node.op)>> \o Unparse(node.right, 2),
                  level > 1)
      [] node.kind = "BinaryOp" /\ node.op \in TermOps ->
           Parens(Unparse(node.left, 2) \o <<OperatorChar(node.op)>> \o Unparse(node.right, 3),
                  level > 2)

\* what may follow a generated expression
Trailers == {<<>>, <<")">>, <<" ", "1">>, <<"(">>, <<"+">>, <<"$">>}

\* the short strings, and the generated expressions of at most n operators
\* with something after them
ParserInputs(len, n) ==
    Strings(Alphabet, len)
    \cup {Unparse(t, 1) \o g : t \in TreesUpTo(n), g \in Trailers}

\* the short strings, and the generated expressions of at most n operators
CompilerInputs(len, n) ==
    Strings(Alphabet, len) \cup {Unparse(t, 1) : t \in TreesUpTo(n)}

ShellAlphabet == {"0", "1", "/", "$", " "}

Lines ==
    {quit} \cup Strings(ShellAlphabet, MaxLen)
    \cup {tokens \o str : str \in Strings(ShellAlphabet, MaxLen)}

---------------------------------------------------------------------------
(* The Lexer, called token by token *)

NoLexer == Lexer(<<>>)

NoParser == Parser(<<>>)

NoCall ==
    [pc |-> "none", expression |-> <<>>, result |-> Value(Zero),
     printed |-> print_tokens(<<>>), edit |-> "none", at |-> 0,
     before |-> [result |-> Value(Zero), printed |-> print_tokens(<<>>)]]

NoShell == [pc |-> "none", expression |-> <<>>, out |-> <<>>]

InitLexer ==
    /\ lexer \in {Lexer(text) : text \in Strings(Alphabet, MaxLen)}
    /\ parser = NoParser
    /\ compiler = NoCall
    /\ shell = NoShell

\* a caller calls get_next_token
LexCall ==
    /\ lexer.pc = "idle"
    /\ lexer' = [lexer EXCEPT !.pc = "get_next_token"]
    /\ UNCHANGED <<parser, compiler, shell>>

LexGetNextToken ==
    /\ lexer.pc = "get_next_token"
    /\ lexer' = get_next_token_step(lexer)
    /\ UNCHANGED <<parser, compiler, shell>>

LexSkipWhitespace ==
    /\ lexer.pc = "skip_whitespace"
    /\ lexer' = skip_whitespace_step(lexer)
    /\ UNCHANGED <<parser, compiler, shell>>

LexNumber ==
    /\ lexer.pc = "number"
    /\ lexer' = number_step(lexer)
    /\ UNCHANGED <<parser, compiler, shell>>

NextLexer == LexCall \/ LexGetNextToken \/ LexSkipWhitespace \/ LexNumber

SpecLexer == InitLexer /\ [][NextLexer]_vars

---------------------------------------------------------------------------
(* The Parser, call by call *)

InitParser ==
    /\ parser \in {Parser(text) : text \in ParserInputs(MaxLen, MaxOps - 1)}
    /\ lexer = NoLexer
    /\ compiler = NoCall
    /\ shell = NoShell

ParseCall ==
    /\ parser.status = "ready"
    /\ parser' = parse_call(parser)
    /\ UNCHANGED <<lexer, compiler, shell>>

Running(f) == parser.status = "running" /\ Top(parser).fn = f

FactorStep ==
    /\ Running("factor")
    /\ parser' = factor_step(parser)
    /\ UNCHANGED <<lexer, compiler, shell>>

TermStep ==
    /\ Running("term")
    /\ parser' = term_step(parser)
    /\ UNCHANGED <<lexer, compiler, shell>>

ExprStep ==
    /\ Running("expr")
    /\ parser' = expr_step(parser)
    /\ UNCHANGED <<lexer, compiler, shell>>

ParseEnd ==
    /\ Running("parse")
    /\ parser' = parse_end(parser)
    /\ UNCHANGED <<lexer, compiler, shell>>

NextParser == ParseCall \/ FactorStep \/ TermStep \/ ExprStep \/ ParseEnd

SpecParser == InitParser /\ [][NextParser]_vars

---------------------------------------------------------------------------
(* ArithmeticCompiler: a caller hands an expression to compile_and_evaluate *)
(* and then to print_tokens.                                               *)

InitCompiler ==
    /\ compiler \in {[NoCall EXCEPT !.pc = "ready", !.expression = text] :
                       text \in CompilerInputs(MaxLen, MaxOps)}
    /\ lexer = NoLexer
    /\ parser = NoParser
    /\ shell = NoShell

CompileAndEvaluate ==
    /\ compiler.pc = "ready"
    /\ compiler' = [compiler EXCEPT !.pc = "evaluated",
                                    !.result = compile_and_evaluate(compiler.expression)]
    /\ UNCHANGED <<lexer, parser, shell>>

PrintTokens ==
    /\ compiler.pc = "evaluated"
    /\ compiler' = [compiler EXCEPT !.pc = "printed",
                                    !.printed = print_tokens(compiler.expression)]
    /\ UNCHANGED <<lexer, parser, shell>>

NextCompiler == CompileAndEvaluate \/ PrintTokens

SpecCompiler == InitCompiler /\ [][NextCompiler]_vars

---------------------------------------------------------------------------
(* The same caller, which then edits the expression by one whitespace      *)
(* character and hands it to the two methods again: before keeps what the  *)
(* unedited expression gave, at the place of the edit.                     *)

WhitespaceAlphabet == {"1", ".", "+", "(", ")", " ", "$", NUL}

Insert(str, i, c) == SubSeq(str, 1, i) \o <<c>> \o SubSeq(str, i + 1, Len(str))

Remove(str, i) == SubSeq(str, 1, i - 1) \o SubSeq(str, i + 1, Len(str))

Edited(c, how, i, str) ==
    [c EXCEPT !.pc = "ready", !.expression = str, !.edit = how, !.at = i,
              !.before = [result |-> c.result, printed |-> c.printed]]

InitWhitespace ==
    /\ compiler \in {[NoCall EXCEPT !.pc = "ready", !.expression = text] :
                       text \in Strings(WhitespaceAlphabet, MaxLen)}
    /\ lexer = NoLexer
    /\ parser = NoParser
    /\ shell = NoShell

\* a whitespace character is put after the first i characters
InsertWhitespace ==
    /\ compiler.pc = "printed"
    /\ compiler.edit = "none"
    /\ \E i \in 0..Len(compiler.expression), c \in Whitespace :
         compiler' = Edited(compiler, "insert", i, Insert(compiler.expression, i, c))
    /\ UNCHANGED <<lexer, parser, shell>>

\* the whitespace character at place i is taken out
RemoveWhitespace ==
    /\ compiler.pc = "printed"
    /\ compiler.edit = "none"
    /\ \E i \in 1..Len(compiler.expression) :
         /\ isspace(compiler.expression[i])
         /\ compiler' = Edited(compiler, "remove", i - 1, Remove(compiler.expression, i))
    /\ UNCHANGED <<lexer, parser, shell>>

NextWhitespace == NextCompiler \/ InsertWhitespace \/ RemoveWhitespace

SpecWhitespace == InitWhitespace /\ [][NextWhitespace]_vars

---------------------------------------------------------------------------
(* main *)

Init ==
    /\ shell = [pc |-> "prompt", expression |-> <<>>, out |-> <<>>]
    /\ lexer = NoLexer
    /\ parser = NoParser
    /\ compiler = NoCall

\* std::getline reads a line (at the end of the input it leaves expression
\* empty, as an empty line does)
ReadLine ==
    /\ shell.pc = "prompt"
    /\ \E line \in Lines :
         shell' = [shell EXCEPT !.pc = "dispatch", !.expression = line, !.out = <<>>]
    /\ UNCHANGED <<lexer, parser, compiler>>

Dispatch ==
    /\ shell.pc = "dispatch"
    /\ shell' = main_dispatch(shell)
    /\ UNCHANGED <<lexer, parser, compiler>>

Next == ReadLine \/ Dispatch

Spec == Init /\ [][Next]_vars

---------------------------------------------------------------------------
(* The reference the claims are measured against: the error kinds of the   *)
(* specification, and an evaluator of token sequences that finds the last  *)
(* operator of the lowest precedence outside parentheses and splits there. *)

Kind(what) ==
    CASE what = <<>> -> "none"
      [] what = <<"Invalid syntax">> -> "InvalidSyntax"
      [] what = <<"Division by zero">> -> "DivisionByZero"
      [] what = <<"stod">> -> "NumericConversionFailure"
      [] what \in {<<"Unexpected token">>, <<"Unexpected token at end of expression">>}
           -> "UnexpectedToken"
      [] Len(what) = 2 /\ what[1] = "Invalid character: " -> "InvalidCharacter"
      [] OTHER -> "other"

\* e is a CompilationError wrapping an error of the kind
Wraps(e, kind) ==
    /\ e.what # <<>>
    /\ Head(e.what) = "Compilation error: "
    /\ Kind(Tail(e.what)) = kind

RefInvalid == [valid |-> FALSE, dz |-> FALSE, val |-> Zero]

RefDivZero == [valid |-> TRUE, dz |-> TRUE, val |-> Zero]

RefNumber(v) == [valid |-> TRUE, dz |-> FALSE, val |-> v]

RefBinary(op, a, b) ==
    IF ~a.valid \/ ~b.valid THEN RefInvalid
    ELSE IF a.dz \/ b.dz THEN RefDivZero
    ELSE CASE op = "PLUS" -> RefNumber(RatAdd(a.val, b.val))
           [] op = "MINUS" -> RefNumber(RatSub(a.val, b.val))
           [] op = "MULTIPLY" -> RefNumber(RatMul(a.val, b.val))
           [] op = "DIVIDE" -> IF b.val = Zero THEN RefDivZero
                               ELSE RefNumber(RatDiv(a.val, b.val))

RefUnary(op, a) ==
    IF ~a.valid \/ a.dz THEN a
    ELSE IF op = "MINUS" THEN RefNumber(RatNeg(a.val)) ELSE a

\* the parentheses open before token i
RECURSIVE Depth(_, _)
Depth(toks, i) ==
    IF i <= 1 THEN 0
    ELSE Depth(toks, i - 1)
         + (CASE toks[i - 1].type = "LPAREN" -> 1
              [] toks[i - 1].type = "RPAREN" -> -1
              [] OTHER -> 0)

\* the places of the binary operators of ops outside all parentheses: an
\* operator is binary when the token before it ends an operand
Splits(toks, ops) ==
    {i \in 2..Len(toks) : /\ toks[i].type \in ops
                          /\ toks[i - 1].type \in {"NUMBER", "RPAREN"}
                          /\ Depth(toks, i) = 0}

Last(S) == CHOOSE i \in S : \A j \in S : j <= i

RECURSIVE RefExpr(_), RefTerm(_), RefFactor(_)
RefExpr(toks) ==
    LET S == Splits(toks, {"PLUS", "MINUS"})
    IN  IF S = {} THEN RefTerm(toks)
        ELSE RefBinary(toks[Last(S)].type, RefExpr(SubSeq(toks, 1, Last(S) - 1)),
                       RefTerm(SubSeq(toks, Last(S) + 1, Len(toks))))

RefTerm(toks) ==
    LET S == Splits(toks, {"MULTIPLY", "DIVIDE"})
    IN  IF S = {} THEN RefFactor(toks)
        ELSE RefBinary(toks[Last(S)].type, RefTerm(SubSeq(toks, 1, Last(S) - 1)),
                       RefFactor(SubSeq(toks, Last(S) + 1, Len(toks))))

RefFactor(toks) ==
    IF toks = <<>> THEN RefInvalid
    ELSE IF Head(toks).type \in {"PLUS", "MINUS"}
    THEN RefUnary(Head(toks).type, RefFactor(Tail(toks)))
    ELSE IF Len(toks) = 1 /\ Head(toks).type = "NUMBER" THEN RefNumber(Head(toks).value)
    ELSE IF Len(toks) >= 2 /\ Head(toks).type = "LPAREN" /\ toks[Len(toks)].type = "RPAREN"
    THEN RefExpr(SubSeq(toks, 2, Len(toks) - 1))
    ELSE RefInvalid

\* the reference value of a text: of its tokens, when it has them
Ref(text) ==
    IF print_tokens(text).ok THEN RefExpr(print_tokens(text).out) ELSE RefInvalid

\* integer literals, operators, parentheses and whitespace only
IntegerExpression(text) ==
    \A i \in 1..Len(text) : isdigit(text[i]) \/ text[i] \in Operators \/ isspace(text[i])

Evaluated == compiler.pc \in {"evaluated", "printed"}

---------------------------------------------------------------------------
(* C1: for every valid expression of integer literals, + - * /, unary      *)
(* signs and balanced parentheses in which no division has a zero right    *)
(* operand, compile_and_evaluate returns the value of the reference        *)
(* evaluator (standard precedence, left-associative binary operators).     *)
C1_ReferenceValue ==
    (/\ Evaluated
     /\ IntegerExpression(compiler.expression)
     /\ Ref(compiler.expression).valid
     /\ ~Ref(compiler.expression).dz)
    => /\ compiler.result.ok
       /\ compiler.result.val = Ref(compiler.expression).val

\* 2 + 2 * 2 has been evaluated to 6, not to 8
C1_Witness ==
    /\ Evaluated
    /\ compiler.expression = <<"2", "+", "2", "*", "2">>
    /\ compiler.result.ok
    /\ compiler.result.val = <<6, 1>>

---------------------------------------------------------------------------
(* C3: for every syntactically valid expression, compile_and_evaluate      *)
(* fails with a CompilationError wrapping DivisionByZero if and only if    *)
(* some division of the tree has a right operand that evaluates to exactly *)
(* 0, wherever it sits in the tree, and then returns no number.            *)
C3_DivisionByZero ==
    (Evaluated /\ Ref(compiler.expression).valid)
    => /\ Ref(compiler.expression).dz
            <=> (~compiler.result.ok /\ Wraps(compiler.result.exc, "DivisionByZero"))
       /\ Ref(compiler.expression).dz <=> ~compiler.result.ok

\* 0 * (2 / 0) has failed with the division by zero
C3_Witness ==
    /\ Evaluated
    /\ compiler.expression = <<"0", "*", "(", "2", "/", "0", ")">>
    /\ ~compiler.result.ok
    /\ compiler.result.exc.what = <<"Compilation error: ", "Division by zero">>

---------------------------------------------------------------------------
(* C7: whitespace insensitivity.  The edit point of an edited expression   *)
(* lies inside a number when the characters on both sides of it are digits *)
(* or '.'.                                                                 *)

NumberChar(c) == isdigit(c) \/ c = "."

\* the characters before and after the edit point are both of a number
InNumber(c) ==
    /\ c.at >= 1
    /\ c.at + (IF c.edit = "insert" THEN 2 ELSE 1) <= Len(c.expression)
    /\ NumberChar(c.expression[c.at])
    /\ NumberChar(c.expression[c.at + (IF c.edit = "insert" THEN 2 ELSE 1)])

SameTokens == compiler.pc = "printed" => compiler.printed = compiler.before.printed

SameOutcome == Evaluated => compiler.result = compiler.before.result

(* C7, as claimed: inserting a whitespace character before the first token, *)
(* after the last or between two adjacent tokens, or removing one there,    *)
(* gives the same tokens and the same outcome.                              *)
C7_AsClaimed ==
    (\/ compiler.edit = "insert" /\ ~InNumber(compiler)
     \/ compiler.edit = "remove")
    => SameTokens /\ SameOutcome

(* C7, amended: inserting a whitespace character before the first token,    *)
(* after the last or between two adjacent tokens, or removing one that does *)
(* not stand between two number literals, gives the same tokens and the     *)
(* same outcome.                                                            *)
C7_WhitespaceInsensitive ==
    (compiler.edit \in {"insert", "remove"} /\ ~InNumber(compiler))
    => SameTokens /\ SameOutcome

\* "1+1" has become "1 +1" and has been evaluated and printed again
C7_Witness ==
    /\ compiler.pc = "printed"
    /\ compiler.edit = "insert"
    /\ compiler.expression = <<"1", " ", "+", "1">>
    /\ compiler.result.ok
    /\ compiler.before.result.ok
    /\ Len(compiler.printed.out) = 3

---------------------------------------------------------------------------
(* C2 and C4: the parser's failures *)

Finished == parser.status \in {"returned", "thrown"}

\* the running call waits at pc of fn, its callee having returned
At(f, at) == Running(f) /\ Top(parser).pc = at

\* the tokens of the text are a complete expr followed by a token that is no
\* binary operator
TrailingToken(text) ==
    /\ print_tokens(text).ok
    /\ \E k \in 1..(Len(print_tokens(text).out) - 1) :
         /\ RefExpr(SubSeq(print_tokens(text).out, 1, k)).valid
         /\ print_tokens(text).out[k + 1].type \in {"NUMBER", "LPAREN", "RPAREN"}

ThrownAs(p, kind) == p.status = "thrown" /\ Kind(p.exc.what) = kind /\ p.ast = NoNode

\* parse has returned a tree: the current token is END_OF_FILE, and the
\* tokens of the text are a whole expr
C2_TreeOnlyAtEnd ==
    parser.status = "returned"
    => /\ parser.current_token.type = "END_OF_FILE"
       /\ parser.ast # NoNode
       /\ Ref(parser.lexer.input).valid

\* the text is a complete expr and another token: parse has failed
C2_TrailingRejected ==
    (Finished /\ TrailingToken(parser.lexer.input)) => ThrownAs(parser, "UnexpectedToken")

\* parse, having its expr and another current token than END_OF_FILE, throws
C2_CheckAfterExpr ==
    (At("parse", "expr") /\ parser.current_token.type # "END_OF_FILE")
    => ThrownAs(parser', "UnexpectedToken")

(* C2: Parser::parse returns a tree only if the current token after one     *)
(* complete expr is END_OF_FILE; when a complete expr is followed by any    *)
(* other token, parse fails with UnexpectedToken and returns no tree.       *)
C2_ParseToTheEnd ==
    /\ [](C2_TreeOnlyAtEnd /\ C2_TrailingRejected)
    /\ [][C2_CheckAfterExpr]_vars

\* "1 2": parse has thrown at the second number
C2_Witness ==
    /\ parser.status = "thrown"
    /\ parser.exc.what = <<"Unexpected token at end of expression">>
    /\ parser.current_token.type = "NUMBER"
    /\ TrailingToken(parser.lexer.input)

FactorStart == {"PLUS", "MINUS", "NUMBER", "LPAREN"}

\* the tokens of the text lack one operand at their end
MissingOperand(text) ==
    /\ print_tokens(text).ok
    /\ RefExpr(Append(print_tokens(text).out, Token("NUMBER", <<1, 1>>))).valid

\* the tokens of the text lack one close parenthesis at their end
MissingParen(text) ==
    /\ print_tokens(text).ok
    /\ RefExpr(Append(print_tokens(text).out, Tok("RPAREN"))).valid

C4_FactorEntry ==
    (At("factor", "entry") /\ parser.current_token.type \notin FactorStart)
    => (ThrownAs(parser', "InvalidSyntax") /\ parser'.exc.what = <<"Invalid syntax">>)

C4_CloseParen ==
    (At("factor", "paren") /\ parser.current_token.type # "RPAREN")
    => (ThrownAs(parser', "UnexpectedToken") /\ parser'.exc.what = <<"Unexpected token">>)

C4_ByInput ==
    Finished
    => /\ MissingOperand(parser.lexer.input) => ThrownAs(parser, "InvalidSyntax")
       /\ MissingParen(parser.lexer.input) => ThrownAs(parser, "UnexpectedToken")

(* C4: factor entered with a current token that is none of PLUS, MINUS,     *)
(* NUMBER, LPAREN (a missing operand, the empty input and "2 + " included)  *)
(* fails with InvalidSyntax; a parenthesised expr followed by another token *)
(* than RPAREN (a missing close parenthesis) fails with UnexpectedToken.    *)
C4_FailuresByCause ==
    /\ []C4_ByInput
    /\ [][C4_FactorEntry /\ C4_CloseParen]_vars

\* "(1": factor has thrown where the close parenthesis is missing
C4_Witness ==
    /\ parser.status = "thrown"
    /\ parser.exc.what = <<"Unexpected token">>
    /\ parser.current_token.type = "END_OF_FILE"
    /\ MissingParen(parser.lexer.input)
    /\ Len(parser.lexer.input) >= 2

\* "1+": factor has thrown where the operand is missing
C4_WitnessOperand ==
    /\ parser.status = "thrown"
    /\ parser.exc.what = <<"Invalid syntax">>
    /\ MissingOperand(parser.lexer.input)
    /\ Len(parser.lexer.input) >= 2

---------------------------------------------------------------------------
(* C5, C6, C9, C10: the lexer *)

InputLeft(l) == l.position < Len(l.input)

\* the character at the scan position is no whitespace and starts no token
Unrecognized(l) ==
    /\ InputLeft(l)
    /\ ~isspace(l.input[l.position + 1])
    /\ ~NumberChar(l.input[l.position + 1])
    /\ l.input[l.position + 1] \notin Operators

C5_Step ==
    (lexer.pc = "get_next_token" /\ Unrecognized(lexer))
    => /\ lexer'.pc = "thrown"
       /\ lexer'.exc.what = <<"Invalid character: ", lexer.input[lexer.position + 1]>>
       /\ Wraps(CompilationError(lexer'.exc).exc, "InvalidCharacter")

(* C5: whenever get_next_token scans, after the whitespace, a character     *)
(* that is no digit, no '.', none of + - * / ( ) and not the end of the     *)
(* input, it fails with InvalidCharacter carrying that character and        *)
(* returns no token; compile_and_evaluate wraps it in a CompilationError.   *)
C5_InvalidCharacter == [][C5_Step]_vars

(* C6: once get_next_token has returned END_OF_FILE, every later call       *)
(* returns END_OF_FILE too and leaves position and current_char unchanged.  *)
C6_EndOfInputForever ==
    [][lexer.ret.type = "END_OF_FILE"
       => /\ lexer'.ret.type = "END_OF_FILE"
          /\ lexer'.pc \in {"idle", "get_next_token"}
          /\ lexer'.position = lexer.position
          /\ lexer'.current_char = lexer.current_char]_vars

\* END_OF_FILE has been returned and a later call is under way
C6_Witness ==
    /\ lexer.ret.type = "END_OF_FILE"
    /\ lexer.pc = "get_next_token"
    /\ Len(lexer.input) >= 2

(* C9: after construction and after every call of advance,                 *)
(* skip_whitespace, number or get_next_token, failed calls included,        *)
(* 0 <= position <= length(input), and current_char is input[position]     *)
(* when position < length(input) and '\0' when position = length(input).   *)
C9_LexerInvariant ==
    /\ 0 <= lexer.position
    /\ lexer.position <= Len(lexer.input)
    /\ lexer.current_char = IF InputLeft(lexer) THEN lexer.input[lexer.position + 1] ELSE NUL

\* number has advanced to the end of the input and failed there
C9_Witness ==
    /\ lexer.pc = "thrown"
    /\ lexer.exc.what = <<"stod">>
    /\ lexer.position = Len(lexer.input)
    /\ lexer.position >= 2

(* C10: get_next_token returns END_OF_FILE only when the scan position is   *)
(* the length of the input, whatever the characters of the input (a zero    *)
(* byte included): no suffix of the input is left unread.                   *)
C10_EndOfFileAtEnd ==
    (lexer.pc = "idle" /\ lexer.ret.type = "END_OF_FILE")
    => lexer.position = Len(lexer.input)

---------------------------------------------------------------------------
(* C8: the interactive loop *)

IsTokensCommand(line) == substr(line, 0, 6) = tokens /\ Len(line) > 7

\* processing the line raises an error of the lexer, the parser or the
\* evaluator
RaisesCoreError(line) ==
    /\ line # quit
    /\ IF IsTokensCommand(line) THEN ~print_tokens(substr(line, 7, Len(line))).ok
       ELSE substr(line, 0, 6) # tokens /\ line # <<>> /\ ~compile_and_evaluate(line).ok

C8_Step ==
    shell.pc = "dispatch"
    => /\ RaisesCoreError(shell.expression)
            => (shell'.pc = "prompt" /\ shell'.out # <<>> /\ Head(shell'.out) = "Error: ")
       /\ shell'.pc # "prompt" => shell.expression = quit

(* C8: whenever processing a line raises a core error, for an expression    *)
(* and for a `tokens <expr>` command alike, the loop prints the error       *)
(* message and prompts for the next line; it ends only at the line "quit".  *)
C8_ErrorsReported == [][C8_Step]_vars

====
